---- MODULE Spec2Model ----
(***************************************************************************)
(* Model of src/gemini.js: the serverless handler that proxies a prompt to *)
(* the generative model and relays the text or an error.                   *)
(*                                                                         *)
(* Each invocation of the exported async handler is a process with its own *)
(* locals (req, res, prompt); the module-level bindings (GEMINI_API_KEY,   *)
(* genAI, model) are set once when the module is loaded.  The generation   *)
(* client is external: the value each of its steps settles with is chosen  *)
(* by the environment.                                                     *)
(***************************************************************************)
EXTENDS Naturals, Sequences, FiniteSets

(***************************************************************************)
(* Bounds of the model.                                                    *)
(***************************************************************************)
NumInvocations == 2

Invocations == 1..NumInvocations

(***************************************************************************)
(* JavaScript values.                                                      *)
(***************************************************************************)
Undefined == [t |-> "undefined"]

Null == [t |-> "null"]

Str(s) == [t |-> "string", s |-> s]

Bool(b) == [t |-> "boolean", b |-> b]

Obj(p) == [t |-> "object", props |-> p]

EmptyProps == [k \in {} |-> Undefined]

\* v is undefined or null: reading a property of it throws a TypeError.
IsNullish(v) == v.t \in {"undefined", "null"}

\* v.k for a value that is not nullish; a missing property reads undefined.
Get(v, k) ==
    IF v.t = "object" /\ k \in DOMAIN v.props THEN v.props[k] ELSE Undefined

\* JavaScript's ToBoolean, as used by `!prompt`.
Truthy(v) ==
    CASE v.t = "undefined" -> FALSE
      [] v.t = "null" -> FALSE
      [] v.t = "string" -> v.s # ""
      [] v.t = "boolean" -> v.b
      [] OTHER -> TRUE

\* The TypeError the runtime throws when a property of undefined is read.
TypeErrorReading(k) ==
    Obj([message |-> Str("Cannot read properties of undefined (reading '" \o k \o "')")])

\* res.json(o): the body is JSON.stringify(o), which leaves out every
\* property whose value is undefined.
JSONStringify(o) == [k \in {x \in DOMAIN o : o[x].t # "undefined"} |-> o[k]]

(***************************************************************************)
(* The inputs the environment draws from.                                  *)
(***************************************************************************)
Methods == {"POST", "GET"}

\* req.body: undefined when the request carries no body, else the parsed
\* JSON: null, or an object with or without a prompt property.
Bodies ==
    {Undefined,
     Null,
     Obj(EmptyProps),
     Obj([prompt |-> Str("")]),
     Obj([prompt |-> Str("Hello")]),
     Obj([prompt |-> Str("X")])}

\* process.env.GEMINI_API_KEY: unset, or the configured key.
ApiKeys == {Undefined, Str("key")}

\* What a failing step of the client throws or rejects with: an Error with a
\* message, a value that has no message property, or undefined.
Thrown ==
    {Obj([message |-> Str("rate limit exceeded")]),
     Obj([message |-> Str("fetch failed")]),
     Obj(EmptyProps),
     Undefined}

\* result.response: a thenable the handler awaits.
ResponsePromise == [t |-> "promise"]

GenResult == Obj([response |-> ResponsePromise])

\* The awaited response object; text is its method.
GenResponse == Obj([text |-> [t |-> "function"]])

\* How the promise of model.generateContent(prompt) settles.
GenerateOutcomes ==
    {[kind |-> "resolve", value |-> v] : v \in {GenResult, Undefined}}
        \cup {[kind |-> "reject", value |-> e] : e \in Thrown}

\* How the awaited result.response settles.
ResponseOutcomes ==
    {[kind |-> "resolve", value |-> v] : v \in {GenResponse, Undefined}}
        \cup {[kind |-> "reject", value |-> e] : e \in Thrown}

\* What response.text() does: return the text (possibly empty, possibly no
\* value at all) or throw.
TextOutcomes ==
    {[kind |-> "return", value |-> v] :
        v \in {Str("Hi there!"), Str(""), Undefined}}
        \cup {[kind |-> "throw", value |-> e] : e \in Thrown}

(***************************************************************************)
(* State.                                                                  *)
(***************************************************************************)
VARIABLES
    apiKey,      \* GEMINI_API_KEY, read once when the module is loaded
    startupLog,  \* what the module logged with console.error while loading
    pc,          \* where each invocation of the handler stands
    req,         \* each invocation's request: method and body
    prompt,      \* each invocation's local `prompt`
    calls,       \* the arguments of each invocation's model.generateContent calls
    gen,         \* the last step of the generation client that settled, per invocation
    sent,        \* the responses each invocation sent on its res: status and JSON body
    errlog,      \* what each invocation logged with console.error
    rejected     \* the error the handler's own promise rejected with, if any

vars == <<apiKey, startupLog, pc, req, prompt, calls, gen, sent, errlog, rejected>>

NoRequest == [method |-> "none", body |-> Undefined]

NoOutcome == [step |-> "none", kind |-> "none", value |-> Undefined]

Settled(step, o) == [step |-> step, kind |-> o.kind, value |-> o.value]

Response(status, o) == [status |-> status, body |-> JSONStringify(o)]

\* The module's top level: read the key, log if it is not set, build the client.
Init ==
    /\ apiKey \in ApiKeys
    /\ startupLog =
         IF ~Truthy(apiKey)
         THEN <<"Gemini API key is not set. Please configure it as a Vercel Environment Variable named GEMINI_API_KEY.">>
         ELSE <<>>
    /\ pc = [i \in Invocations |-> "idle"]
    /\ req = [i \in Invocations |-> NoRequest]
    /\ prompt = [i \in Invocations |-> Undefined]
    /\ calls = [i \in Invocations |-> <<>>]
    /\ gen = [i \in Invocations |-> NoOutcome]
    /\ sent = [i \in Invocations |-> <<>>]
    /\ errlog = [i \in Invocations |-> <<>>]
    /\ rejected = [i \in Invocations |-> Undefined]

\* The platform calls the handler with a request.
Invoke(i) ==
    /\ pc[i] = "idle"
    /\ \E m \in Methods, b \in Bodies :
          req' = [req EXCEPT ![i] = [method |-> m, body |-> b]]
    /\ pc' = [pc EXCEPT ![i] = "received"]
    /\ UNCHANGED <<apiKey, startupLog, prompt, calls, gen, sent, errlog, rejected>>

\* Mutation: the method check lets GET through as well.
MethodAllowed_orGet(m) == m \in {"POST", "GET"}

MethodAllowed(m) == m = "POST"

\* Mutation: the prompt check runs before the method check.
CheckMethod_promptFirst(i) ==
    /\ pc[i] = "received"
    /\ \/ /\ ~IsNullish(req[i].body)
          /\ ~Truthy(Get(req[i].body, "prompt"))
          /\ sent' = [sent EXCEPT ![i] = Append(@,
                [status |-> 400,
                 body |-> [success |-> Bool(FALSE),
                           error |-> Str("Missing \"prompt\" in request body.")]])]
          /\ pc' = [pc EXCEPT ![i] = "responded400"]
       \/ /\ IsNullish(req[i].body) \/ Truthy(Get(req[i].body, "prompt"))
          /\ ~MethodAllowed(req[i].method)
          /\ sent' = [sent EXCEPT ![i] = Append(@,
                [status |-> 405,
                 body |-> [success |-> Bool(FALSE),
                           error |-> Str("Method Not Allowed. Only POST requests are supported.")]])]
          /\ pc' = [pc EXCEPT ![i] = "responded405"]
       \/ /\ IsNullish(req[i].body) \/ Truthy(Get(req[i].body, "prompt"))
          /\ MethodAllowed(req[i].method)
          /\ pc' = [pc EXCEPT ![i] = "methodOk"]
          /\ UNCHANGED sent
    /\ UNCHANGED <<apiKey, startupLog, req, prompt, calls, gen, errlog, rejected>>

\* if (req.method !== 'POST') { res.status(405).json(...); return; }
CheckMethod(i) ==
    /\ pc[i] = "received"
    /\ \/ /\ ~MethodAllowed(req[i].method)
          /\ sent' = [sent EXCEPT ![i] = Append(@,
                Response(405, [success |-> Bool(FALSE),
                               error |-> Str("Method Not Allowed. Only POST requests are supported.")]))]
          /\ pc' = [pc EXCEPT ![i] = "responded405"]
       \/ /\ MethodAllowed(req[i].method)
          /\ pc' = [pc EXCEPT ![i] = "methodOk"]
          /\ UNCHANGED sent
    /\ UNCHANGED <<apiKey, startupLog, req, prompt, calls, gen, errlog, rejected>>

\* const { prompt } = req.body;  outside the try block: destructuring
\* undefined or null throws a TypeError that rejects the handler's promise.
DestructureBody(i) ==
    /\ pc[i] = "methodOk"
    /\ \/ /\ IsNullish(req[i].body)
          /\ rejected' = [rejected EXCEPT ![i] =
                Obj([message |-> Str("Cannot destructure property 'prompt' of 'req.body' as it is " \o req[i].body.t \o ".")])]
          /\ pc' = [pc EXCEPT ![i] = "threw"]
          /\ UNCHANGED prompt
       \/ /\ ~IsNullish(req[i].body)
          /\ prompt' = [prompt EXCEPT ![i] = Get(req[i].body, "prompt")]
          /\ pc' = [pc EXCEPT ![i] = "destructured"]
          /\ UNCHANGED rejected
    /\ UNCHANGED <<apiKey, startupLog, req, calls, gen, sent, errlog>>

\* Mutation: the 400 branch sends its response and does not return.
CheckPrompt_noReturn(i) ==
    /\ pc[i] = "destructured"
    /\ \/ /\ ~Truthy(prompt[i])
          /\ sent' = [sent EXCEPT ![i] = Append(@,
                [status |-> 400,
                 body |-> [success |-> Bool(FALSE),
                           error |-> Str("Missing \"prompt\" in request body.")]])]
       \/ /\ Truthy(prompt[i])
          /\ UNCHANGED sent
    /\ pc' = [pc EXCEPT ![i] = "validated"]
    /\ UNCHANGED <<apiKey, startupLog, req, prompt, calls, gen, errlog, rejected>>

\* if (!prompt) { res.status(400).json(...); return; }
CheckPrompt(i) ==
    /\ pc[i] = "destructured"
    /\ \/ /\ ~Truthy(prompt[i])
          /\ sent' = [sent EXCEPT ![i] = Append(@,
                Response(400, [success |-> Bool(FALSE),
                               error |-> Str("Missing \"prompt\" in request body.")]))]
          /\ pc' = [pc EXCEPT ![i] = "responded400"]
       \/ /\ Truthy(prompt[i])
          /\ pc' = [pc EXCEPT ![i] = "validated"]
          /\ UNCHANGED sent
    /\ UNCHANGED <<apiKey, startupLog, req, prompt, calls, gen, errlog, rejected>>

\* Mutation: the whole body is passed instead of its prompt.
GenerateContentArg_body(i) == req[i].body

\* The argument of model.generateContent(prompt).
GenerateContentArg(i) == prompt[i]

\* model.generateContent(prompt), and the suspension at its await.
CallGenerateContent(i) ==
    /\ pc[i] = "validated"
    /\ calls' = [calls EXCEPT ![i] = Append(@, GenerateContentArg(i))]
    /\ pc' = [pc EXCEPT ![i] = "generating"]
    /\ UNCHANGED <<apiKey, startupLog, req, prompt, gen, sent, errlog, rejected>>

\* Mutation: details is the error converted to a string, not its message.
ErrorDetails_toString(e) ==
    IF Get(e, "message").t = "string"
    THEN Str("Error: " \o Get(e, "message").s)
    ELSE Str("[object Object]")

\* details: error.message
ErrorDetails(e) == Get(e, "message")

\* Mutation: the catch block calls the model a second time before giving up.
Catch_retry(i, e) ==
    /\ errlog' = [errlog EXCEPT ![i] = Append(@, e)]
    /\ IF Len(calls[i]) < 2
       THEN /\ calls' = [calls EXCEPT ![i] = Append(@, prompt[i])]
            /\ pc' = [pc EXCEPT ![i] = "generating"]
            /\ UNCHANGED <<sent, rejected>>
       ELSE /\ calls' = calls
            /\ sent' = [sent EXCEPT ![i] = Append(@,
                  [status |-> 500,
                   body |-> [success |-> Bool(FALSE),
                             error |-> Str("Failed to generate AI insight.")]])]
            /\ pc' = [pc EXCEPT ![i] = "failed"]
            /\ UNCHANGED rejected

\* catch (error) { console.error(...); res.status(500).json(...) }
\* Reading error.message of undefined throws inside the catch block.
Catch(i, e) ==
    /\ errlog' = [errlog EXCEPT ![i] = Append(@, e)]
    /\ calls' = calls
    /\ IF IsNullish(e)
       THEN /\ rejected' = [rejected EXCEPT ![i] = TypeErrorReading("message")]
            /\ pc' = [pc EXCEPT ![i] = "threw"]
            /\ UNCHANGED sent
       ELSE /\ sent' = [sent EXCEPT ![i] = Append(@,
                  Response(500, [success |-> Bool(FALSE),
                                 error |-> Str("Failed to generate AI insight."),
                                 details |-> ErrorDetails(e)]))]
            /\ pc' = [pc EXCEPT ![i] = "failed"]
            /\ UNCHANGED rejected

\* Mutation: res is kept in a module-level binding, so the response goes out
\* on the res of the invocation that stored it last.
Respond200_sharedRes(i, t) ==
    LET j == CHOOSE k \in Invocations :
                 /\ pc[k] # "idle"
                 /\ \A l \in Invocations : l > k => pc[l] = "idle"
    IN  /\ sent' = [sent EXCEPT ![j] = Append(@,
              [status |-> 200, body |-> [success |-> Bool(TRUE), text |-> t]])]
        /\ pc' = [pc EXCEPT ![i] = "succeeded"]
        /\ UNCHANGED <<calls, errlog, rejected>>

\* res.status(200).json({ success: true, text: text })
Respond200(i, t) ==
    /\ sent' = [sent EXCEPT ![i] = Append(@,
          Response(200, [success |-> Bool(TRUE), text |-> t]))]
    /\ pc' = [pc EXCEPT ![i] = "succeeded"]
    /\ UNCHANGED <<calls, errlog, rejected>>

\* The await of model.generateContent settles: on a rejection the catch
\* block runs; else result.response is read and awaited.
ResumeGenerateContent(i) ==
    /\ pc[i] = "generating"
    /\ \E o \in GenerateOutcomes :
          /\ gen' = [gen EXCEPT ![i] = Settled("generateContent", o)]
          /\ \/ /\ o.kind = "reject"
                /\ Catch(i, o.value)
             \/ /\ o.kind = "resolve"
                /\ IsNullish(o.value)
                /\ Catch(i, TypeErrorReading("response"))
             \/ /\ o.kind = "resolve"
                /\ ~IsNullish(o.value)
                /\ pc' = [pc EXCEPT ![i] = "awaitingResponse"]
                /\ UNCHANGED <<calls, sent, errlog, rejected>>
    /\ UNCHANGED <<apiKey, startupLog, req, prompt>>

\* The await of result.response settles: on a rejection the catch block
\* runs; else response.text() is called and its text sent with status 200.
ResumeResponse(i) ==
    /\ pc[i] = "awaitingResponse"
    /\ \/ \E o \in ResponseOutcomes :
             /\ o.kind = "reject" \/ IsNullish(o.value)
             /\ gen' = [gen EXCEPT ![i] = Settled("response", o)]
             /\ Catch(i, IF o.kind = "reject" THEN o.value ELSE TypeErrorReading("text"))
       \/ \E o \in ResponseOutcomes, t \in TextOutcomes :
             /\ o.kind = "resolve" /\ ~IsNullish(o.value)
             /\ gen' = [gen EXCEPT ![i] = Settled("text", t)]
             /\ \/ /\ t.kind = "throw"
                   /\ Catch(i, t.value)
                \/ /\ t.kind = "return"
                   /\ Respond200(i, t.value)
    /\ UNCHANGED <<apiKey, startupLog, req, prompt>>

Next ==
    \E i \in Invocations :
        \/ Invoke(i)
        \/ CheckMethod(i)
        \/ DestructureBody(i)
        \/ CheckPrompt(i)
        \/ CallGenerateContent(i)
        \/ ResumeGenerateContent(i)
        \/ ResumeResponse(i)

Spec == Init /\ [][Next]_vars

(***************************************************************************)
(* Properties.                                                             *)
(***************************************************************************)

\* The handler's promise has settled: a response went out, or it threw.
Finished(i) ==
    pc[i] \in {"responded405", "responded400", "succeeded", "failed", "threw"}

\* The request has no body, no prompt property, or an empty prompt.
PromptMissingOrEmpty(b) ==
    \/ b \in {Undefined, Null}
    \/ "prompt" \notin DOMAIN b.props
    \/ b.props.prompt = Str("")

Envelope405 ==
    [status |-> 405,
     body |-> [success |-> Bool(FALSE),
               error |-> Str("Method Not Allowed. Only POST requests are supported.")]]

Envelope400 ==
    [status |-> 400,
     body |-> [success |-> Bool(FALSE),
               error |-> Str("Missing \"prompt\" in request body.")]]

Envelope500(m) ==
    [status |-> 500,
     body |-> [success |-> Bool(FALSE),
               error |-> Str("Failed to generate AI insight."),
               details |-> m]]

Envelope200(t) ==
    [status |-> 200, body |-> [success |-> Bool(TRUE), text |-> t]]

\* The generation client failed at its last settled step with an error that
\* carries a message.
FailedWithMessage(g) ==
    /\ g.kind \in {"reject", "throw"}
    /\ g.value.t = "object"
    /\ "message" \in DOMAIN g.value.props

\* C1: every finished POST invocation whose prompt is missing or empty (no
\* prompt field, an empty prompt, or no body at all) has sent the 400
\* envelope {success:false, error:'Missing "prompt" in request body.'}.
C1_MissingPrompt400 ==
    \A i \in Invocations :
        (/\ Finished(i)
         /\ req[i].method = "POST"
         /\ PromptMissingOrEmpty(req[i].body))
            => sent[i] = <<Envelope400>>

\* C2: when the generation client fails with message M at any of its three
\* steps (generateContent rejects, the awaited response rejects, text()
\* throws), the invocation has sent exactly the 500 envelope with details M.
C2_FailureIs500WithDetails ==
    \A i \in Invocations :
        FailedWithMessage(gen[i])
            => /\ pc[i] = "failed"
               /\ sent[i] = <<Envelope500(gen[i].value.props.message)>>

C2_Witness ==
    \E i, j \in Invocations :
        /\ gen[i].step = "generateContent" /\ gen[i].kind = "reject"
        /\ gen[i].value = Obj([message |-> Str("rate limit exceeded")])
        /\ sent[i] = <<Envelope500(Str("rate limit exceeded"))>>
        /\ gen[j].step = "text" /\ gen[j].kind = "throw"
        /\ gen[j].value = Obj([message |-> Str("fetch failed")])
        /\ sent[j] = <<Envelope500(Str("fetch failed"))>>

\* C3: when a POST invocation with non-empty prompt P gets text T back from
\* the generation client, the client was called with P itself and the
\* invocation has sent exactly 200 {success:true, text:T}.
C3_SuccessIs200WithText ==
    \A i \in Invocations :
        (/\ gen[i].step = "text"
         /\ gen[i].kind = "return"
         /\ gen[i].value.t = "string")
            => /\ req[i].method = "POST"
               /\ calls[i] = <<req[i].body.props.prompt>>
               /\ sent[i] = <<Envelope200(gen[i].value)>>

C3_Witness ==
    \E i \in Invocations :
        /\ req[i] = [method |-> "POST", body |-> Obj([prompt |-> Str("Hello")])]
        /\ gen[i] = [step |-> "text", kind |-> "return", value |-> Str("Hi there!")]
        /\ calls[i] = <<Str("Hello")>>
        /\ sent[i] = <<Envelope200(Str("Hi there!"))>>

\* C4: an invocation whose method is not POST, whatever its body, is past the
\* method check only with the 405 envelope sent and nothing else.
C4_NonPostIs405 ==
    \A i \in Invocations :
        (req[i].method # "POST" /\ pc[i] \notin {"idle", "received"})
            => /\ pc[i] = "responded405"
               /\ sent[i] = <<Envelope405>>

C4_Witness ==
    \E i, j \in Invocations :
        /\ req[i] = [method |-> "GET", body |-> Obj([prompt |-> Str("Hello")])]
        /\ sent[i] = <<Envelope405>>
        /\ req[j] = [method |-> "GET", body |-> Undefined]
        /\ sent[j] = <<Envelope405>>

\* C5: every response ever sent keeps the envelope: success=true carries text
\* and neither error nor details; success=false carries error and no text;
\* details appears only with status 500.
C5_EnvelopeInvariant ==
    \A i \in Invocations : \A k \in 1..Len(sent[i]) :
        LET r == sent[i][k]
            keys == DOMAIN r.body
        IN  /\ "success" \in keys
            /\ r.body.success = Bool(TRUE)
                  => "text" \in keys /\ "error" \notin keys /\ "details" \notin keys
            /\ r.body.success = Bool(FALSE)
                  => "error" \in keys /\ "text" \notin keys
            /\ "details" \in keys => r.status = 500

\* C6: an invocation that answered 405 or 400 has made no call to
\* model.generateContent, in any state from the response on.
C6_UsageErrorsNeverCallModel ==
    \A i \in Invocations :
        (\/ pc[i] \in {"responded405", "responded400"}
         \/ \E k \in 1..Len(sent[i]) : sent[i][k].status \in {400, 405})
            => calls[i] = <<>>

C6_Witness ==
    \E i, j \in Invocations :
        /\ pc[i] = "responded400" /\ sent[i] = <<Envelope400>> /\ calls[i] = <<>>
        /\ pc[j] = "responded405" /\ sent[j] = <<Envelope405>> /\ calls[j] = <<>>

\* C7: no invocation ever calls model.generateContent more than once, and one
\* that passed both validation checks and went on has called it exactly once,
\* also after the call failed and the 500 went out.
C7_ExactlyOneCall ==
    \A i \in Invocations :
        /\ Len(calls[i]) <= 1
        /\ (/\ req[i].method = "POST"
            /\ ~PromptMissingOrEmpty(req[i].body)
            /\ pc[i] \notin {"idle", "received", "methodOk", "destructured", "validated"})
               => Len(calls[i]) = 1
        /\ pc[i] \in {"generating", "awaitingResponse", "succeeded", "failed"}
               => Len(calls[i]) = 1

C7_Witness ==
    \E i \in Invocations :
        /\ pc[i] = "failed"
        /\ gen[i].step = "generateContent" /\ gen[i].kind = "reject"
        /\ Len(calls[i]) = 1
        /\ Len(sent[i]) = 1 /\ sent[i][1].status = 500

\* C8: the method check comes first: a 400 is only ever sent for a POST
\* request, and a finished request that is not POST and also lacks a prompt
\* has got 405 and no 400.
C8_MethodCheckFirst ==
    \A i \in Invocations :
        /\ (\E k \in 1..Len(sent[i]) : sent[i][k].status = 400)
               => req[i].method = "POST"
        /\ (/\ Finished(i)
            /\ req[i].method # "POST"
            /\ PromptMissingOrEmpty(req[i].body))
               => sent[i] = <<Envelope405>>

C8_Witness ==
    \E i, j \in Invocations :
        /\ req[i] = [method |-> "GET", body |-> Obj(EmptyProps)]
        /\ sent[i] = <<Envelope405>>
        /\ req[j] = [method |-> "POST", body |-> Obj(EmptyProps)]
        /\ sent[j] = <<Envelope400>>

\* C9: every finished invocation, for any request (any method, any body,
\* none included) and any outcome of the generation call, has sent exactly
\* one response.
C9_ExactlyOneResponse ==
    \A i \in Invocations : Finished(i) => Len(sent[i]) = 1

\* What one invocation sends when it runs alone, from its own request and the
\* outcome of its own generation call.
SoloResponse(r, g) ==
    IF r.method # "POST" THEN <<Envelope405>>
    ELSE IF r.body \in {Undefined, Null} THEN <<>>
    ELSE IF PromptMissingOrEmpty(r.body) THEN <<Envelope400>>
    ELSE IF g.kind = "return" THEN
        IF g.value = Undefined
        THEN <<[status |-> 200, body |-> [success |-> Bool(TRUE)]]>>
        ELSE <<Envelope200(g.value)>>
    ELSE IF g.kind = "resolve" THEN
        <<Envelope500(Str("Cannot read properties of undefined (reading '"
              \o (IF g.step = "generateContent" THEN "response" ELSE "text") \o "')"))>>
    ELSE IF g.value = Undefined THEN <<>>
    ELSE IF FailedWithMessage(g) THEN <<Envelope500(g.value.props.message)>>
    ELSE <<[status |-> 500,
            body |-> [success |-> Bool(FALSE),
                      error |-> Str("Failed to generate AI insight.")]]>>

\* The state of one invocation.
Local(i) ==
    <<pc[i], req[i], prompt[i], calls[i], gen[i], sent[i], errlog[i], rejected[i]>>

\* C10: under every interleaving, a finished invocation has sent what it
\* would have sent running alone, given its own request and the outcome of
\* its own generation call; and every step changes the state of one
\* invocation only, leaving the module-level state as it was.
C10_InvocationsIndependent ==
    /\ [](\A i \in Invocations :
             Finished(i) => sent[i] = SoloResponse(req[i], gen[i]))
    /\ [][/\ \E i \in Invocations :
               \A j \in Invocations \ {i} : Local(j)' = Local(j)
          /\ apiKey' = apiKey
          /\ startupLog' = startupLog]_vars

\* Two invocations were suspended at the awaited generation call together,
\* and the one invoked with "X" finished first with a different outcome.
C10_Witness ==
    \E i, j \in Invocations :
        /\ i # j
        /\ req[i].body = Obj([prompt |-> Str("Hello")])
        /\ req[j].body = Obj([prompt |-> Str("X")])
        /\ pc[i] = "awaitingResponse"
        /\ pc[j] = "succeeded"
        /\ sent[i] = <<>>
        /\ sent[j] = <<Envelope200(Str(""))>>

====
